---- MODULE Spec2Model ----
(***************************************************************************)
(* Task manager screen of app/(tabs)/index.tsx: the TaskManager component  *)
(* that mirrors its task list to AsyncStorage under the key "tasks".       *)
(*                                                                         *)
(* Strings are sequences of characters, so that "", " " and "a" differ the *)
(* way they do for zod's min(1) and for trim().  Every asynchronous call   *)
(* (getItem, setItem) is split at its await: the storage access is one     *)
(* step, the continuation that runs after the await is another, and any    *)
(* other handler may run in between.  A handler reads `tasks` from the     *)
(* render it was created in, which is the state at the moment it is        *)
(* dispatched.  The contents of the form fields are inputs of the submit   *)
(* handlers (the user may type anything before pressing the button), so    *)
(* react-hook-form's reset() has no state to act on here.                  *)
(*                                                                         *)
(* The file also holds an earlier version of the component that keeps the  *)
(* list in memory only (from line 283 on).  Spec is the component that     *)
(* persists the list, SpecMem the one that does not.                       *)
(***************************************************************************)
EXTENDS Integers, Sequences, FiniteSets, TLC

VARIABLES
    now,          \* the latest reading of Date.now(), in clock ticks
    tasks,        \* useState<Task[]>: the published list
    editTask,     \* useState<Task | null>
    selectedTask, \* useState<Task | null>
    filter,       \* useState<"all" | "complete" | "incomplete">
    storage,      \* the AsyncStorage item "tasks"
    pending,      \* saveAllTasks calls suspended at their await, in dispatch order;
                  \* afterLoad (history): the mount effect had resolved at the call
    loadPc,       \* the mount effect: "reading", "resolving", "done"
    loadResult,   \* what getAllTasks resolved to
    last,         \* history: the step taken last
    lastWritten,  \* history: the list of the last setItem that succeeded
    run,          \* history: the current run of intents of one kind
    dispatched    \* history: how many saveAllTasks calls were made so far

vars == <<now, tasks, editTask, selectedTask, filter, storage, pending,
          loadPc, loadResult, last, lastWritten, run, dispatched>>

----------------------------------------------------------------------------
(* Bounds *)

MaxDispatched == 2   \* saveAllTasks calls in one behaviour
MaxTicks == 1        \* clock ticks that pass after the first mount

----------------------------------------------------------------------------
(* Values *)

Null == [isNull |-> TRUE]
Undefined == <<"undefined-value">>
NotAnArray == <<[nonArray |-> TRUE]>>
NothingWritten == <<[nothingWritten |-> TRUE]>>

\* what the user may have typed into the form when the button is pressed
FormValues ==
    {[title |-> <<>>, description |-> Undefined],
     [title |-> <<" ">>, description |-> Undefined],
     [title |-> <<"a">>, description |-> Undefined],
     [title |-> <<"b">>, description |-> <<"d">>]}

Filters == {"all", "complete", "incomplete"}

\* the item "tasks": never set, not JSON, JSON that is no array, or a stringified list
NullItem == [tag |-> "null", text |-> <<>>]
GarbageItem == [tag |-> "garbage", text |-> <<>>]
NumberItem == [tag |-> "number", text |-> <<>>]

----------------------------------------------------------------------------
(* Pure functions of the component *)

taskSchema(title) == Len(title) >= 1

OrEmpty(description) ==
    IF description = Undefined \/ description = <<>> THEN <<>> ELSE description

RECURSIVE NumberToString(_)
NumberToString(n) ==
    IF n < 10 THEN <<n>> ELSE Append(NumberToString(n \div 10), n % 10)

NewTask(time, title, description) ==
    [id |-> NumberToString(time), title |-> title,
     description |-> OrEmpty(description), completed |-> FALSE]

addTaskList_prepend(list, time, title, description) ==
    <<NewTask(time, title, description)>> \o list

addTaskList(list, time, title, description) ==
    Append(list, NewTask(time, title, description))

editExistingTaskList(list, target, title, description) ==
    [i \in 1..Len(list) |->
        IF list[i].id = target.id
        THEN [list[i] EXCEPT !.title = title, !.description = OrEmpty(description)]
        ELSE list[i]]

deleteTaskList_first(list, task) == IF list = <<>> THEN <<>> ELSE Tail(list)

deleteTaskList(list, task) == SelectSeq(list, LAMBDA t : t.id # task.id)

toggleCompleteTaskList_set(list, task) ==
    [i \in 1..Len(list) |->
        IF list[i].id = task.id THEN [list[i] EXCEPT !.completed = TRUE] ELSE list[i]]

toggleCompleteTaskList(list, task) ==
    [i \in 1..Len(list) |->
        IF list[i].id = task.id
        THEN [list[i] EXCEPT !.completed = ~list[i].completed]
        ELSE list[i]]

filterPass(t, f) ==
    IF f = "complete" THEN t.completed
    ELSE IF f = "incomplete" THEN ~t.completed
    ELSE TRUE

filteredTasks(list, f) == SelectSeq(list, LAMBDA t : filterPass(t, f))

JSONstringify_noFlag(list) ==
    [tag |-> "array",
     text |-> [i \in 1..Len(list) |->
                 <<list[i].id, list[i].title, list[i].description, "false">>]]

JSONstringify(list) ==
    [tag |-> "array",
     text |-> [i \in 1..Len(list) |->
                 <<list[i].id, list[i].title, list[i].description,
                   IF list[i].completed THEN "true" ELSE "false">>]]

\* JSON.parse: throws on text that is not JSON, returns whatever value the text denotes
JSONparse(item) ==
    IF item.tag = "array"
    THEN [threw |-> FALSE,
          value |-> [i \in 1..Len(item.text) |->
                       [id |-> item.text[i][1], title |-> item.text[i][2],
                        description |-> item.text[i][3],
                        completed |-> (item.text[i][4] = "true")]]]
    ELSE IF item.tag = "number"
    THEN [threw |-> FALSE, value |-> NotAnArray]
    ELSE [threw |-> TRUE, value |-> <<>>]

\* getAllTasks: readOk is whether AsyncStorage.getItem resolved
getAllTasks(readOk) ==
    IF ~readOk THEN <<>>
    ELSE IF storage = NullItem THEN <<>>
    ELSE IF JSONparse(storage).threw THEN <<>>
    ELSE JSONparse(storage).value

\* lists an earlier session of the app may have saved, their tasks created at
\* the clock readings 0 and 1
SavedBefore ==
    {<<[id |-> NumberToString(0), title |-> <<"a">>, description |-> <<>>,
        completed |-> FALSE]>>,
     <<[id |-> NumberToString(0), title |-> <<"a">>, description |-> <<>>,
        completed |-> FALSE],
       [id |-> NumberToString(1), title |-> <<"b">>, description |-> <<"d">>,
        completed |-> TRUE]>>}

\* Date.now() at the first mount, after every reading of the earlier sessions
Boot == Cardinality({0, 1})

----------------------------------------------------------------------------
(* History *)

Ev(op, kind) == [op |-> op, kind |-> kind]

NoRun == [kind |-> "none", base |-> <<>>, args |-> <<>>, overlap |-> FALSE]

Quiescent == loadPc = "done" /\ pending = <<>>

RunAfter(kind, arg) ==
    IF run.kind = kind
    THEN [run EXCEPT !.args = Append(@, arg), !.overlap = @ \/ pending # <<>>]
    ELSE IF Quiescent
    THEN [kind |-> kind, base |-> tasks, args |-> <<arg>>, overlap |-> FALSE]
    ELSE NoRun

\* an edit of the task that the one delete of the current run removes
EditAfter ==
    IF run.kind = "delete" /\ Len(run.args) = 1 /\ editTask.id = run.args[1]
    THEN [run EXCEPT !.kind = "deleteThenEdit", !.overlap = pending # <<>>]
    ELSE NoRun

----------------------------------------------------------------------------
(* State *)

Rendered == tasks # NotAnArray

Init ==
    /\ now = Boot
    /\ tasks = <<>>
    /\ editTask = Null
    /\ selectedTask = Null
    /\ filter = "all"
    /\ \/ /\ storage \in {NullItem, GarbageItem, NumberItem}
          /\ lastWritten = NothingWritten
       \/ \E list \in SavedBefore :
          /\ storage = JSONstringify(list)
          /\ lastWritten = list
    /\ pending = <<>>
    /\ loadPc = "reading"
    /\ loadResult = <<>>
    /\ last = Ev("mount", "")
    /\ run = NoRun
    /\ dispatched = 0

RemoveAt(s, i) == [j \in 1..(Len(s) - 1) |-> IF j < i THEN s[j] ELSE s[j + 1]]

\* saveAllTasks up to its await: setItem has been called and has not settled
saveAllTasks(updatedTasks, kind) ==
    /\ dispatched < MaxDispatched
    /\ dispatched' = dispatched + 1
    /\ pending' = Append(pending, [kind |-> kind, list |-> updatedTasks,
                                   written |-> FALSE, afterLoad |-> loadPc = "done"])
    /\ UNCHANGED <<tasks, storage, lastWritten>>

\* the mount effect up to the await inside getAllTasks
LoadRead ==
    /\ loadPc = "reading"
    /\ \E readOk \in BOOLEAN :
        /\ loadResult' = getAllTasks(readOk)
        /\ last' = Ev(IF readOk THEN "loadRead" ELSE "loadReadFailed", "")
    /\ loadPc' = "resolving"
    /\ UNCHANGED <<now, tasks, editTask, selectedTask, filter, storage,
                   pending, lastWritten, run, dispatched>>

\* .then((storedTasks) => setTasks(storedTasks))
LoadResolve ==
    /\ loadPc = "resolving"
    /\ tasks' = loadResult
    /\ loadPc' = "done"
    /\ last' = Ev("loadResolve", "")
    /\ run' = NoRun
    /\ UNCHANGED <<now, editTask, selectedTask, filter, storage, pending,
                   loadResult, lastWritten, dispatched>>

\* Date.now() reads the clock, which has not gone back since the last reading
addTask(title, description) ==
    /\ \E time \in now..(Boot + MaxTicks) :
        /\ now' = time
        /\ saveAllTasks(addTaskList(tasks, time, title, description), "add")
    /\ last' = Ev("addTask", "add")
    /\ run' = RunAfter("add", title)
    /\ UNCHANGED <<editTask, selectedTask, filter, loadPc, loadResult>>

editExistingTask(title, description) ==
    /\ editTask # Null
    /\ saveAllTasks(editExistingTaskList(tasks, editTask, title, description), "edit")
    /\ last' = Ev("editExistingTask", "edit")
    /\ run' = EditAfter
    /\ UNCHANGED <<now, editTask, selectedTask, filter, loadPc, loadResult>>

Rejected ==
    /\ last' = Ev("rejected", "")
    /\ UNCHANGED <<now, tasks, editTask, selectedTask, filter, storage,
                   pending, loadPc, loadResult, lastWritten, run, dispatched>>

\* onPress={handleSubmit(editTask ? editExistingTask : addTask)}
Submit ==
    /\ Rendered
    /\ \E data \in FormValues :
        IF ~taskSchema(data.title) THEN Rejected
        ELSE IF editTask # Null THEN editExistingTask(data.title, data.description)
        ELSE addTask(data.title, data.description)

\* the setItem of a suspended saveAllTasks writes the item
SaveWrite ==
    \E i \in 1..Len(pending) :
        /\ ~pending[i].written
        /\ storage' = JSONstringify(pending[i].list)
        /\ lastWritten' = pending[i].list
        /\ pending' = [pending EXCEPT ![i].written = TRUE]
        /\ last' = Ev("saveWrite", pending[i].kind)
        /\ UNCHANGED <<now, tasks, editTask, selectedTask, filter, loadPc,
                       loadResult, run, dispatched>>

\* what runs after `await saveAllTasks(...)` in the handler that called it
AfterSave(kind) ==
    /\ editTask' = IF kind = "edit" THEN Null ELSE editTask
    /\ UNCHANGED <<now, selectedTask, filter, loadPc, loadResult>>

CanPublish_early(s) == TRUE

\* setTasks(updatedTasks) stands after the await of setItem, inside the try
CanPublish(s) == s.written

\* a setTasks that keeps the tasks the new list does not have
setTasks_keep(updatedTasks) ==
    updatedTasks \o SelectSeq(tasks, LAMBDA t : \A i \in 1..Len(updatedTasks) :
                                                    updatedTasks[i].id # t.id)

\* setTasks(updatedTasks): the new list replaces the published one
setTasks(updatedTasks) == updatedTasks

\* the await resolved: setTasks(updatedTasks)
SaveResolve ==
    \E i \in 1..Len(pending) :
        /\ CanPublish(pending[i])
        /\ tasks' = IF Rendered THEN setTasks(pending[i].list) ELSE tasks
        /\ pending' = RemoveAt(pending, i)
        /\ last' = Ev("saveResolve", pending[i].kind)
        /\ AfterSave(pending[i].kind)
        /\ UNCHANGED <<storage, lastWritten, run, dispatched>>

TasksAfterFailedSave_optimistic(updatedTasks) == updatedTasks

\* the catch branch of saveAllTasks logs and leaves the state alone
TasksAfterFailedSave(updatedTasks) == tasks

\* setItem rejected
SaveFail ==
    \E i \in 1..Len(pending) :
        /\ ~pending[i].written
        /\ tasks' = IF Rendered THEN TasksAfterFailedSave(pending[i].list) ELSE tasks
        /\ pending' = RemoveAt(pending, i)
        /\ last' = Ev("saveFail", pending[i].kind)
        /\ run' = NoRun
        /\ AfterSave(pending[i].kind)
        /\ UNCHANGED <<storage, lastWritten, dispatched>>

openOptions ==
    /\ Rendered
    /\ \E i \in 1..Len(tasks) :
        /\ filterPass(tasks[i], filter)
        /\ selectedTask' = tasks[i]
        /\ last' = Ev("openOptions", "")
    /\ editTask' = Null
    /\ UNCHANGED <<now, tasks, filter, storage, pending, loadPc, loadResult,
                   lastWritten, run, dispatched>>

toggleCompleteTask(task) ==
    /\ saveAllTasks(toggleCompleteTaskList(tasks, task), "toggle")
    /\ last' = Ev("toggleCompleteTask", "toggle")
    /\ run' = RunAfter("toggle", task.id)
    /\ UNCHANGED editTask

deleteTask(task) ==
    /\ saveAllTasks(deleteTaskList(tasks, task), "delete")
    /\ last' = Ev("deleteTask", "delete")
    /\ run' = RunAfter("delete", task.id)
    /\ UNCHANGED editTask

beginEdit(task) ==
    /\ editTask' = task
    /\ last' = Ev("beginEdit", "")
    /\ UNCHANGED <<tasks, storage, pending, lastWritten, run, dispatched>>

handleOptionsAction ==
    /\ Rendered
    /\ selectedTask # Null
    /\ \E action \in {"toggle", "edit", "delete"} :
        IF action = "toggle" THEN toggleCompleteTask(selectedTask)
        ELSE IF action = "edit" THEN beginEdit(selectedTask)
        ELSE deleteTask(selectedTask)
    /\ selectedTask' = Null
    /\ UNCHANGED <<now, filter, loadPc, loadResult>>

\* onPress={() => setEditTask(null)}
cancelEdit ==
    /\ Rendered
    /\ editTask # Null
    /\ editTask' = Null
    /\ last' = Ev("cancelEdit", "")
    /\ UNCHANGED <<now, tasks, selectedTask, filter, storage, pending, loadPc,
                   loadResult, lastWritten, run, dispatched>>

\* onPress={() => setFilter(type)}
setFilter ==
    /\ Rendered
    /\ \E type \in Filters :
        /\ filter' = type
        /\ last' = Ev("setFilter", type)
    /\ UNCHANGED <<now, tasks, editTask, selectedTask, storage, pending,
                   loadPc, loadResult, lastWritten, run, dispatched>>

\* the process ends and the component mounts again: useState's initial values,
\* the mount effect starts over, the suspended handlers are gone
Restart ==
    /\ tasks' = <<>>
    /\ editTask' = Null
    /\ selectedTask' = Null
    /\ filter' = "all"
    /\ pending' = <<>>
    /\ loadPc' = "reading"
    /\ loadResult' = <<>>
    /\ last' = Ev("mount", "")
    /\ run' = NoRun
    /\ UNCHANGED <<now, storage, lastWritten, dispatched>>

Next ==
    \/ LoadRead
    \/ LoadResolve
    \/ Submit
    \/ SaveWrite
    \/ SaveResolve
    \/ SaveFail
    \/ openOptions
    \/ handleOptionsAction
    \/ cancelEdit
    \/ setFilter
    \/ Restart

Spec == Init /\ [][Next]_vars

----------------------------------------------------------------------------
(* The version of the component that keeps the list in memory only (the    *)
(* second TaskManager of the file).  Its handlers are synchronous: each is *)
(* one step.  It uses tasks, editTask, selectedTask and filter; the        *)
(* variables of the storage and of the clock are left as they start.  The  *)
(* text fields newTitle and newDescription are inputs of the handlers that *)
(* read them: onChangeText lets the user set them to anything beforehand.  *)

MaxTasks == 2        \* tasks the in-memory list may hold

\* newTitle and newDescription are strings, "" at first
FormValuesMem ==
    {[title |-> f.title, description |-> OrEmpty(f.description)] : f \in FormValues}

\* the labels the filter buttons pass to setFilter, in the order of the buttons
FilterButtonsMem == <<"Todas", "Completas", "Incompletas">>

\* the type the labels are cast to, member by member
FilterTypes == <<"all", "complete", "incomplete">>

RECURSIVE trim(_)
trim(s) ==
    IF s = <<>> THEN <<>>
    ELSE IF Head(s) = " " THEN trim(Tail(s))
    ELSE IF s[Len(s)] = " " THEN trim(SubSeq(s, 1, Len(s) - 1))
    ELSE s

\* Math.random().toString(): nothing keeps a draw from repeating
MathRandomToString(k) == <<0, ".">> \o NumberToString(k)

NewTaskMem(k, newTitle, newDescription) ==
    [id |-> MathRandomToString(k), title |-> newTitle,
     description |-> OrEmpty(newDescription), completed |-> FALSE]

editExistingTaskListMem(list, task, newTitle, newDescription) ==
    [i \in 1..Len(list) |->
        IF list[i].id = task.id
        THEN [task EXCEPT !.title = newTitle, !.description = newDescription]
        ELSE list[i]]

deleteTaskListMem(list, taskId) == SelectSeq(list, LAMBDA t : t.id # taskId)

toggleCompleteTaskListMem(list, taskId) ==
    [i \in 1..Len(list) |->
        IF list[i].id = taskId
        THEN [list[i] EXCEPT !.completed = ~list[i].completed]
        ELSE list[i]]

StorageUnused ==
    UNCHANGED <<now, storage, pending, loadPc, loadResult, lastWritten, run, dispatched>>

InitMem ==
    /\ now = Boot
    /\ tasks = <<>>
    /\ editTask = Null
    /\ selectedTask = Null
    /\ filter = "all"
    /\ storage = NullItem
    /\ pending = <<>>
    /\ loadPc = "done"
    /\ loadResult = <<>>
    /\ last = Ev("mount", "")
    /\ lastWritten = NothingWritten
    /\ run = NoRun
    /\ dispatched = 0

addTaskMem(newTitle, newDescription) ==
    IF trim(newTitle) = <<>>
    THEN /\ last' = Ev("rejected", "")
         /\ UNCHANGED <<tasks, editTask, selectedTask, filter>>
    ELSE /\ Len(tasks) < MaxTasks
         /\ \E k \in 1..MaxTasks :
                tasks' = Append(tasks, NewTaskMem(k, newTitle, newDescription))
         /\ last' = Ev("addTask", "add")
         /\ UNCHANGED <<editTask, selectedTask, filter>>

editExistingTaskMem(task, newTitle, newDescription) ==
    /\ tasks' = editExistingTaskListMem(tasks, task, newTitle, newDescription)
    /\ editTask' = Null
    /\ last' = Ev("editExistingTask", "edit")
    /\ UNCHANGED <<selectedTask, filter>>

\* onPress={editTask ? () => editExistingTask(editTask) : addTask}
SubmitMem ==
    /\ \E data \in FormValuesMem :
        IF editTask # Null THEN editExistingTaskMem(editTask, data.title, data.description)
        ELSE addTaskMem(data.title, data.description)
    /\ StorageUnused

openOptionsMem ==
    /\ \E i \in 1..Len(tasks) :
        /\ filterPass(tasks[i], filter)
        /\ selectedTask' = tasks[i]
    /\ last' = Ev("openOptions", "")
    /\ UNCHANGED <<tasks, editTask, filter>>
    /\ StorageUnused

toggleCompleteTaskMem(taskId) ==
    /\ tasks' = toggleCompleteTaskListMem(tasks, taskId)
    /\ last' = Ev("toggleCompleteTask", "toggle")
    /\ UNCHANGED editTask

deleteTaskMem(taskId) ==
    /\ tasks' = deleteTaskListMem(tasks, taskId)
    /\ last' = Ev("deleteTask", "delete")
    /\ UNCHANGED editTask

beginEditMem(task) ==
    /\ editTask' = task
    /\ last' = Ev("beginEdit", "")
    /\ UNCHANGED tasks

\* the buttons of the options menu are rendered while a task is selected
handleOptionsActionMem ==
    /\ selectedTask # Null
    /\ \E action \in {"complete", "incomplete", "edit", "delete"} :
        IF action = "complete" THEN toggleCompleteTaskMem(selectedTask.id)
        ELSE IF action = "incomplete" THEN toggleCompleteTaskMem(selectedTask.id)
        ELSE IF action = "edit" THEN beginEditMem(selectedTask)
        ELSE deleteTaskMem(selectedTask.id)
    /\ selectedTask' = Null
    /\ UNCHANGED filter
    /\ StorageUnused

\* the button Cancelar of the options menu: onPress={() => setSelectedTask(null)}
dismissOptionsMem ==
    /\ selectedTask # Null
    /\ selectedTask' = Null
    /\ last' = Ev("dismissOptions", "")
    /\ UNCHANGED <<tasks, editTask, filter>>
    /\ StorageUnused

cancelEditMem ==
    /\ editTask # Null
    /\ editTask' = Null
    /\ last' = Ev("cancelEdit", "")
    /\ UNCHANGED <<tasks, selectedTask, filter>>
    /\ StorageUnused

\* onPress={() => setFilter(type as "all" | "complete" | "incomplete")}
setFilterMem ==
    /\ \E b \in 1..Len(FilterButtonsMem) :
        /\ filter' = FilterButtonsMem[b]
        /\ last' = Ev("setFilter", FilterTypes[b])
    /\ UNCHANGED <<tasks, editTask, selectedTask>>
    /\ StorageUnused

NextMem ==
    \/ SubmitMem
    \/ openOptionsMem
    \/ handleOptionsActionMem
    \/ dismissOptionsMem
    \/ cancelEditMem
    \/ setFilterMem

SpecMem == InitMem /\ [][NextMem]_vars

----------------------------------------------------------------------------
(* Properties *)

Ids(list) == {list[i].id : i \in 1..Len(list)}

NoDuplicateIds(list) ==
    \A i, j \in 1..Len(list) : i # j => list[i].id # list[j].id

Distinct(s) == \A i, j \in 1..Len(s) : i # j => s[i] # s[j]

IsBlank(title) == \A i \in 1..Len(title) : title[i] = " "

Without(list, id) == SelectSeq(list, LAMBDA t : t.id # id)

\* C1: after n addTask intents with distinct non-empty titles, dispatched on an
\* empty list (also while an earlier save is still pending) and all saved
\* successfully, the published list has exactly n tasks once no save is pending.
C1_EveryAddPublished ==
    (/\ Rendered
     /\ run.kind = "add"
     /\ run.base = <<>>
     /\ Distinct(run.args)
     /\ pending = <<>>)
    => Len(tasks) = Len(run.args)

\* C2: no two tasks of the published list share an id, and no two tasks of the
\* persisted list do.
C2_IdsUnique ==
    /\ Rendered => NoDuplicateIds(tasks)
    /\ storage.tag = "array" => NoDuplicateIds(JSONparse(storage).value)

\* C3: a mutation changes the published list only when its save resolves, and
\* then to a list whose setItem had succeeded; a failed save leaves the
\* published list as it was.
C3_PublishAfterSave ==
    [][/\ last'.op = "saveFail" => tasks' = tasks
       /\ (tasks' # tasks /\ last'.op \notin {"mount", "loadResolve"}) =>
            /\ last'.op = "saveResolve"
            /\ \E i \in 1..Len(pending) :
                /\ pending[i].written
                /\ pending[i].list = tasks'
                /\ pending' = RemoveAt(pending, i)]_vars

C3_Witness ==
    /\ last.op = "saveResolve"
    /\ last.kind = "add"
    /\ tasks # <<>>
    /\ storage = JSONstringify(tasks)

\* C4 as stated: when the save of a mutation fails, the published list holds
\* that mutation's list although the persisted record does not.
C4_FailedSaveStaysVisible ==
    [][(last'.op = "saveFail" /\ Len(pending) = 1 /\ pending[1].afterLoad)
       => tasks' = pending[1].list]_vars

\* C4 as amended: when the save of a mutation fails, neither the published list
\* nor the persisted record takes the mutation's change: both are left as they
\* were.
C4_FailedSaveChangesNothing ==
    [][last'.op = "saveFail" => (tasks' = tasks /\ storage' = storage)]_vars

C4_Witness ==
    /\ last.op = "saveFail"
    /\ last.kind \in {"add", "toggle", "delete"}
    /\ loadPc = "done"
    /\ Rendered

\* C5: a load that reads the item right after a successful save of L, with no
\* save in between, yields L.
C5_RoundTrip ==
    (last.op = "loadRead" /\ lastWritten # NothingWritten) => loadResult = lastWritten

C5_Witness ==
    /\ last.op = "loadRead"
    /\ dispatched > 0
    /\ lastWritten # NothingWritten
    /\ loadResult = lastWritten
    /\ \E i \in 1..Len(loadResult) : loadResult[i].id = NumberToString(now)

C5_WitnessEmpty ==
    /\ last.op = "loadRead"
    /\ dispatched > 0
    /\ lastWritten = <<>>
    /\ loadResult = <<>>

\* C6: what load yields, and what the mount effect publishes, is always a list.
C6_LoadYieldsList ==
    /\ loadResult # NotAnArray
    /\ tasks # NotAnArray

\* C7: an addTask whose title is empty or only whitespace changes nothing: no
\* save is started, the published list and the persisted record stay.
C7_BlankTitleRejected ==
    [][(/\ last'.op = "addTask"
        /\ loadPc = "done"
        /\ pending' # pending
        /\ Len(pending') > 0)
       => LET list == pending'[Len(pending')].list
          IN  Len(list) > 0 /\ ~IsBlank(list[Len(list)].title)]_vars

\* C8: the list published by an edit differs from the list published before it
\* in the title and description of one task at most: same length, same ids in
\* the same positions, same completed flags.
C8_CommitEditFrame ==
    [][(/\ last'.op = "saveResolve"
        /\ last'.kind = "edit"
        /\ Rendered
        /\ tasks' # tasks
        /\ \A i \in 1..Len(pending) : pending[i].afterLoad)
       => /\ Len(tasks') = Len(tasks)
          /\ \A i \in 1..Len(tasks) :
                /\ tasks'[i].id = tasks[i].id
                /\ tasks'[i].completed = tasks[i].completed
          /\ \E id \in Ids(tasks) :
                \A i \in 1..Len(tasks) : tasks'[i] # tasks[i] => tasks[i].id = id]_vars

\* C9: two toggleComplete intents on the same task, each dispatched when no
\* save is pending and each saved, give back the list they started from.
C9_ToggleInvolution ==
    (/\ Rendered
     /\ run.kind = "toggle"
     /\ ~run.overlap
     /\ Len(run.args) = 2
     /\ run.args[1] = run.args[2]
     /\ pending = <<>>)
    => tasks = run.base

C9_Witness ==
    /\ Rendered
    /\ run.kind = "toggle"
    /\ ~run.overlap
    /\ Len(run.args) = 2
    /\ run.args[1] = run.args[2]
    /\ run.args[1] \in Ids(run.base)
    /\ pending = <<>>
    /\ last.op = "saveResolve"
    /\ Len(tasks) = 2

\* C10: two deleteTask intents on the same task leave the list the first one
\* produced: the task absent, every other task present in the same order.
C10_DeleteIdempotent ==
    (/\ Rendered
     /\ run.kind = "delete"
     /\ Len(run.args) = 2
     /\ run.args[1] = run.args[2]
     /\ pending = <<>>)
    => tasks = Without(run.base, run.args[1])

C10_Witness ==
    /\ Rendered
    /\ run.kind = "delete"
    /\ Len(run.args) = 2
    /\ run.args[1] = run.args[2]
    /\ run.args[1] \in Ids(run.base)
    /\ pending = <<>>
    /\ last.op = "saveResolve"
    /\ Len(tasks) = 1

Projection(list, f) ==
    IF f = "all" THEN list
    ELSE SelectSeq(list, LAMBDA t : t.completed = (f = "complete"))

\* C11: right after the user pressed a filter button the visible list is the
\* projection of the task list by that button's filter (all: every task,
\* complete: the completed ones, incomplete: the others); in every state the
\* complete and the incomplete projections share no task and together have as
\* many tasks as the list.
C11_VisibleIsProjection ==
    Rendered =>
        /\ last.op = "setFilter" =>
                filteredTasks(tasks, filter) = Projection(tasks, last.kind)
        /\ LET complete == filteredTasks(tasks, "complete")
               incomplete == filteredTasks(tasks, "incomplete")
           IN  /\ Len(complete) + Len(incomplete) = Len(tasks)
               /\ \A i \in 1..Len(complete) : \A j \in 1..Len(incomplete) :
                      complete[i] # incomplete[j]

\* C12: pressing a filter button changes the filter only: the task list, the
\* persisted record, editTask, selectedTask and the pending saves stay, and the
\* new filter is one of all, complete, incomplete.
C12_SetFilterFrame ==
    [][last'.op = "setFilter" =>
          /\ tasks' = tasks
          /\ storage' = storage
          /\ editTask' = editTask
          /\ selectedTask' = selectedTask
          /\ pending' = pending
          /\ filter' \in Filters]_vars

\* two intents of one kind, the second dispatched while the save of the first
\* was pending, no save failed, and both saves have resolved
OverlappingPairDone ==
    /\ Rendered
    /\ run.overlap
    /\ Len(run.args) = 2
    /\ pending = <<>>

HasTitle(list, title) == \E i \in 1..Len(list) : list[i].title = title

Flipped(list, base, id) ==
    \E i \in 1..Len(list) :
        /\ i <= Len(base)
        /\ list[i].id = id
        /\ base[i].id = id
        /\ list[i].completed # base[i].completed

C14_EditOfDeletedIsNoOp ==
    (/\ Rendered
     /\ run.kind = "deleteThenEdit"
     /\ pending = <<>>)
    => /\ run.args[1] \notin Ids(tasks)
       /\ storage.tag = "array" => run.args[1] \notin Ids(JSONparse(storage).value)

\* editTask, when set, is a task whose id is in the published list
EditTargetInList == (Rendered /\ editTask # Null) => editTask.id \in Ids(tasks)

\* C15: once a delete has been applied to the published list, editTask does not
\* refer to the deleted task: editTask, when set, has its id in the list.
C15_DeleteClearsEditTarget ==
    [][(/\ last'.op \in {"saveResolve", "deleteTask"}
        /\ last'.kind = "delete"
        /\ tasks' # tasks
        /\ loadPc = "done"
        /\ \A i \in 1..Len(pending) : pending[i].afterLoad)
       => EditTargetInList']_vars

\* the clock reading an id was made of
RECURSIVE StringToNumber(_)
StringToNumber(digits) ==
    IF digits = <<>> THEN 0
    ELSE 10 * StringToNumber(SubSeq(digits, 1, Len(digits) - 1)) + digits[Len(digits)]

OrderedByCreation(list) ==
    \A i, j \in 1..Len(list) :
        i < j => StringToNumber(list[i].id) <= StringToNumber(list[j].id)

SameIdsInPlace(list, base) ==
    /\ Len(list) = Len(base)
    /\ \A i \in 1..Len(base) : list[i].id = base[i].id

\* the list the handler that was just dispatched hands to saveAllTasks
Dispatching(kind) ==
    /\ last'.kind = kind
    /\ last'.op \in {"addTask", "editExistingTask", "toggleCompleteTask", "deleteTask"}
    /\ Rendered

\* C16: addTask appends the new task at the end of the list it read; an edit
\* and a toggle keep every task at its position and a delete keeps the others
\* in their order; the published list is always ordered by creation.
C16_InsertionOrderKept ==
    [][LET list == pending'[Len(pending')].list
       IN  /\ Dispatching("add") =>
                /\ Len(list) = Len(tasks) + 1
                /\ SubSeq(list, 1, Len(tasks)) = tasks
                /\ StringToNumber(list[Len(list)].id) = now'
           /\ Dispatching("edit") => SameIdsInPlace(list, tasks)
           /\ Dispatching("toggle") => SameIdsInPlace(list, tasks)
           /\ Dispatching("delete") =>
                \E id \in Ids(tasks) \cup {<<>>} :
                    list = SelectSeq(tasks, LAMBDA t : t.id # id)
           /\ Rendered' => OrderedByCreation(tasks')]_vars

C16_Witness ==
    /\ last.op = "saveResolve"
    /\ last.kind = "add"
    /\ Len(tasks) = 3
    /\ tasks[3].id = NumberToString(now)
    /\ OrderedByCreation(tasks)

Stored(item) == IF item.tag = "array" THEN JSONparse(item).value ELSE <<>>

Holds(list, t) == \E i \in 1..Len(list) : list[i] = t

\* C17, in the case the claim singles out: an add dispatched after the mount and
\* before the initial load has resolved does not discard the tasks persisted
\* before: when its setItem writes, every task of the valid persisted list is
\* in the list written.
C17_EarlyAddKeepsStored ==
    [][\A i \in 1..Len(pending) :
          (/\ last'.op = "saveWrite"
           /\ pending[i].kind = "add"
           /\ ~pending[i].afterLoad
           /\ ~pending[i].written
           /\ Len(pending') = Len(pending)
           /\ pending'[i].written
           /\ storage.tag \in {"array", "null"})
          => \A k \in 1..Len(Stored(storage)) :
                 Holds(Stored(storage'), Stored(storage)[k])]_vars

\* what C17 says of every state: the load has resolved, no save is in flight and
\* the persisted payload is a task list or absent, so the published list is the
\* persisted one
MemoryIsStorage ==
    (Quiescent /\ Rendered /\ storage.tag \in {"array", "null"})
    => tasks = Stored(storage)

\* C18: editTask and selectedTask are never both set.
C18_EditOrSelection == editTask = Null \/ selectedTask = Null

====
